---- MODULE Spec2Model ----
(***************************************************************************)
(* Model of libs/documenter.py: Source, SourceDoc and SourceDirectory.     *)
(*                                                                         *)
(* Strings are sequences of tokens.  A token is "." , "/" or an atom (a    *)
(* non-empty run of characters holding neither "." nor "/"), so the        *)
(* character operations the code uses (count("."), name[0], name[1:],      *)
(* replace(".", "/"), splitting at "/", suffix, with_suffix) act on the    *)
(* tokens exactly as they act on the characters.                           *)
(*                                                                         *)
(* A path is the sequence of its components below the anchor "/"; every    *)
(* path of the model is absolute.  pathlib keeps ".." components, so a     *)
(* path may hold the component <<".", ".">>.                                *)
(***************************************************************************)
EXTENDS Naturals, Sequences, FiniteSets

VARIABLES fs, pc, documentation_type, loaded, _source_files, last,
          template, _content, clast, gen

\* the state of the SourceDirectory, the state of the Component and the
\* state of a run of generate_documentation
dvars == <<fs, pc, documentation_type, loaded, _source_files, last>>
cvars == <<template, _content, clast>>
vars == <<dvars, cvars, gen>>

\* ---------------------------------------------------------------- bounds
\* Longest working list load_source_file may still append to.
MaxFiles == 2

\* ---------------------------------------------------------- sequences
RECURSIVE SeqToSet(_)
SeqToSet(s) == IF s = <<>> THEN {} ELSE {Head(s)} \cup SeqToSet(Tail(s))

Last(s) == s[Len(s)]
Front(s) == SubSeq(s, 1, Len(s) - 1)

\* ------------------------------------------------------------- strings
Dot == "."
Sep == "/"

\* str.count(".")
RECURSIVE count(_, _)
count(name, ch) ==
    IF name = <<>> THEN 0
    ELSE (IF Head(name) = ch THEN 1 ELSE 0) + count(Tail(name), ch)

\* str.replace(old, new, n) with n = count(old): every occurrence
replace(name, old, new) ==
    [i \in 1..Len(name) |-> IF name[i] = old THEN new ELSE name[i]]

\* the position of the last ch in s, 0 when there is none (str.rfind + 1)
RECURSIVE rfind(_, _)
rfind(s, ch) ==
    IF s = <<>> THEN 0
    ELSE IF Last(s) = ch THEN Len(s) ELSE rfind(Front(s), ch)

\* ---------------------------------------------------------------- paths
DotDot == <<Dot, Dot>>

\* str.split("/") : the runs of tokens between separators, empty runs kept
RECURSIVE SplitSep(_, _)
SplitSep(s, cur) ==
    IF s = <<>> THEN <<cur>>
    ELSE IF Head(s) = Sep THEN <<cur>> \o SplitSep(Tail(s), <<>>)
         ELSE SplitSep(Tail(s), Append(cur, Head(s)))

RECURSIVE DropEmptyAndDot(_)
DropEmptyAndDot(parts) ==
    IF parts = <<>> THEN <<>>
    ELSE IF Head(parts) = <<>> \/ Head(parts) = <<Dot>>
         THEN DropEmptyAndDot(Tail(parts))
         ELSE <<Head(parts)>> \o DropEmptyAndDot(Tail(parts))

\* Path(name): the anchor and the components; "" and "." components are
\* dropped, ".." components are kept.
Path(name) ==
    [abs   |-> name # <<>> /\ Head(name) = Sep,
     parts |-> DropEmptyAndDot(SplitSep(name, <<>>))]

\* self.path / Path(name): an absolute right operand replaces the left one
JoinPath(base, p) == IF p.abs THEN p.parts ELSE base \o p.parts

\* PurePath.suffix of the final component
suffix(p) ==
    IF p = <<>> THEN <<>>
    ELSE LET nm == Last(p)
             i  == rfind(nm, Dot)
         IN  IF 1 < i /\ i < Len(nm) THEN SubSeq(nm, i, Len(nm)) ELSE <<>>

\* PurePath.with_suffix(suf); the code never calls it on a path with an
\* empty name
with_suffix(p, suf) ==
    LET nm  == Last(p)
        old == suffix(p)
        stem == SubSeq(nm, 1, Len(nm) - Len(old))
    IN  Append(Front(p), stem \o suf)

\* PurePath.is_relative_to(other): a comparison of the components only
is_relative_to(p, other) ==
    /\ Len(p) >= Len(other)
    /\ SubSeq(p, 1, Len(other)) = other

\* ---------------------------------------------------------- filesystem
\* The directory the SourceDirectory is built on (self.path): /r
Root == << <<"r">> >>

F_a_py      == Root \o << <<"a", Dot, "py">> >>
F_a_init_py == F_a_py \o << <<"__init__", Dot, "py">> >>
F_c_res     == Root \o << <<"c", Dot, "resource">> >>
F_n_txt     == Root \o << <<"n", Dot, "txt">> >>
D_p         == Root \o << <<"p">> >>
D_q         == D_p \o << <<"q">> >>
F_q_init_py == D_q \o << <<"__init__", Dot, "py">> >>
F_q_init_rb == D_q \o << <<"__init__", Dot, "robot">> >>
F_out       == << <<"o", Dot, "py">> >>

\* The entries a directory tree of the model may hold, in the order the
\* directory scan lists them (parents before their entries).  /r/a.py may
\* be a file or a package directory, which holds an __init__.py;
\* /r/p/q is a package directory when it holds an __init__ file; /o.py
\* lies outside the source directory.  Every tree of the model holds the
\* files /r/c.resource, /r/n.txt and /o.py.
ScanOrder ==
    << F_a_py, F_a_init_py, F_c_res, F_n_txt, D_p, D_q, F_q_init_py,
       F_q_init_rb, F_out >>

Universe == SeqToSet(ScanOrder)

AllowedKinds(u) ==
    IF u = F_a_py THEN {"none", "file", "dir"}
    ELSE IF u \in {D_p, D_q} THEN {"none", "dir"}
    ELSE IF u \in {F_c_res, F_n_txt, F_out} THEN {"file"}
    ELSE {"none", "file"}

\* what stat() finds at a path without ".." components
KindOf(f, real) ==
    IF real = <<>> \/ real = Root THEN "dir"
    ELSE IF real \in DOMAIN f THEN f[real]
    ELSE "none"

\* a tree: an entry exists only inside an existing directory
WellFormed(f) ==
    /\ \A u \in Universe :
           /\ f[u] \in AllowedKinds(u)
           /\ f[u] # "none" => KindOf(f, Front(u)) = "dir"
    /\ f[F_a_py] = "dir" => f[F_a_init_py] = "file"

FileSystems == {f \in [Universe -> {"none", "file", "dir"}] : WellFormed(f)}

\* stat() of an absolute path: the components are walked from the anchor;
\* ".." steps to the parent of a directory that exists.
RECURSIVE Walk(_, _, _)
Walk(f, p, cur) ==
    IF p = <<>> THEN KindOf(f, cur)
    ELSE IF KindOf(f, cur) # "dir" THEN "none"
    ELSE IF Head(p) = DotDot
         THEN Walk(f, Tail(p), IF cur = <<>> THEN <<>> ELSE Front(cur))
         ELSE Walk(f, Tail(p), Append(cur, Head(p)))

exists(f, p)  == Walk(f, p, <<>>) # "none"
is_dir(f, p)  == Walk(f, p, <<>>) = "dir"
is_file(f, p) == Walk(f, p, <<>>) = "file"

\* ------------------------------------------------------------- constants
PYTHON == <<"p", "y", "t", "h", "o", "n">>
RFW    == <<"r", "f", "w">>

VALID_DOC_TYPES == <<PYTHON, RFW>>

SuffixPy       == <<Dot, "py">>
SuffixRobot    == <<Dot, "robot">>
SuffixResource == <<Dot, "resource">>

SOURCE_LANGUAGES ==
    [s \in {SuffixPy, SuffixRobot, SuffixResource} |->
        IF s = SuffixPy THEN PYTHON ELSE RFW]

\* Python's None, as a value no string of the model equals
None == <<"None">>

\* ------------------------------------------------------------ str.lower
UpperLetters ==
    <<"A", "B", "C", "D", "E", "F", "G", "H", "I", "J", "K", "L", "M",
      "N", "O", "P", "Q", "R", "S", "T", "U", "V", "W", "X", "Y", "Z">>
LowerLetters ==
    <<"a", "b", "c", "d", "e", "f", "g", "h", "i", "j", "k", "l", "m",
      "n", "o", "p", "q", "r", "s", "t", "u", "v", "w", "x", "y", "z">>

LowerChar(c) ==
    IF \E i \in 1..Len(UpperLetters) : UpperLetters[i] = c
    THEN LowerLetters[CHOOSE i \in 1..Len(UpperLetters) : UpperLetters[i] = c]
    ELSE c

lower(s) == [i \in 1..Len(s) |-> LowerChar(s[i])]

\* ---------------------------------------------------------------- Source
\* Source.__init__ with the check of documentation_type left out
SourceNew_Unchecked(path, dt) ==
    [exc |-> "", path |-> path,
     documentation_type |-> IF dt = None \/ dt = <<>> THEN RFW ELSE dt]

\* Source.__init__: the check of documentation_type and the value stored.
\* The result is the exception raised ("" for none) and the new object.
SourceNew(path, dt) ==
    IF dt # None /\ lower(dt) \notin SeqToSet(VALID_DOC_TYPES)
    THEN [exc |-> "ValueError", path |-> path, documentation_type |-> dt]
    ELSE [exc |-> "", path |-> path,
          documentation_type |-> IF dt = None \/ dt = <<>> THEN RFW ELSE dt]

\* the SourceDoc kept in the working list
Doc(obj) == [path |-> obj.path, documentation_type |-> obj.documentation_type]

\* ------------------------------------------------------- SourceDirectory
\* The value SourceDoc(None) is built from when convert_name_to_path falls
\* off its last elif: a path no entry of the model has.
NonePath == << <<"None">> >>

\* A name handed to load_source_file / exclude_source_file: a str, or a
\* Path object (isPath); s is its text.  The Path objects of the model are
\* absolute, as those generate_documentation passes.
Str(s)     == [isPath |-> FALSE, s |-> s]
PathObj(s) == [isPath |-> TRUE, s |-> s]

_get_init_path_for_dir(f, dir_path) ==
    LET python_path == Append(dir_path, <<"__init__", Dot, "py">>)
        robot_path  == Append(dir_path, <<"__init__", Dot, "robot">>)
    IN  IF exists(f, python_path) THEN python_path
        ELSE IF exists(f, robot_path) THEN robot_path
        ELSE dir_path

RECURSIVE convert_name_to_path(_, _)
convert_name_to_path(f, name) ==
    IF name.isPath THEN JoinPath(<<>>, Path(name.s))
    ELSE
      LET count_dot_seps == count(name.s, Dot) IN
      IF count_dot_seps > 0
      THEN IF Head(name.s) = Dot
           THEN convert_name_to_path(f, Str(Tail(name.s)))
           ELSE LET possible_path ==
                        JoinPath(Root, Path(replace(name.s, Dot, Sep)))
                IN  IF exists(f, possible_path) THEN possible_path
                    ELSE IF exists(f, with_suffix(possible_path, SuffixPy))
                         THEN with_suffix(possible_path, SuffixPy)
                    ELSE IF exists(f, with_suffix(possible_path, SuffixRobot))
                         THEN with_suffix(possible_path, SuffixRobot)
                    ELSE NonePath
      ELSE LET possible_path == JoinPath(Root, Path(name.s))
           IN  IF is_dir(f, possible_path)
               THEN _get_init_path_for_dir(f, possible_path)
               ELSE possible_path

\* SourceDoc(path) with the default documentation_type; SourceDoc(None)
\* raises TypeError in Path(None).
SourceDocNew(path) ==
    IF path = NonePath
    THEN [exc |-> "TypeError", path |-> path, documentation_type |-> None]
    ELSE SourceNew(path, None)

_create_source_doc(f, name) ==
    LET new_path == JoinPath(Root, Path(name.s))
    IN  IF ~is_relative_to(new_path, Root)
        THEN [exc |-> "ValueError", path |-> new_path,
              documentation_type |-> None]
        ELSE IF ~exists(f, new_path)
             THEN SourceDocNew(convert_name_to_path(f, name))
        ELSE IF is_dir(f, new_path)
             THEN SourceDocNew(_get_init_path_for_dir(f, new_path))
        ELSE SourceDocNew(new_path)

\* Path.glob("**/*") filtered by suffix: every entry below the directory,
\* files and directories alike, whose suffix is a key of SOURCE_LANGUAGES
RECURSIVE GlobFiltered(_, _)
GlobFiltered(f, order) ==
    IF order = <<>> THEN <<>>
    ELSE LET u == Head(order)
         IN  IF /\ is_relative_to(u, Root)
                /\ KindOf(f, u) # "none"
                /\ suffix(u) \in DOMAIN SOURCE_LANGUAGES
             THEN <<u>> \o GlobFiltered(f, Tail(order))
             ELSE GlobFiltered(f, Tail(order))

\* the source_files property: the list, built on the first access
source_files(f, isLoaded, files, dt) ==
    IF isLoaded THEN files
    ELSE LET raw == GlobFiltered(f, ScanOrder)
         IN  [i \in 1..Len(raw) |-> Doc(SourceNew(raw[i], dt))]

\* Source.__eq__
SourceEq(a, b) == a.path = b.path

\* list.remove(file): drops the first entry equal to file; when there is
\* none (ValueError, caught and printed) the list stays as it is
RECURSIVE ListRemove(_, _)
ListRemove(files, file) ==
    IF files = <<>> THEN <<>>
    ELSE IF SourceEq(Head(files), file) THEN Tail(files)
    ELSE <<Head(files)>> \o ListRemove(Tail(files), file)

RECURSIVE RemoveAll(_, _)
RemoveAll(files, files_to_remove) ==
    IF files_to_remove = <<>> THEN files
    ELSE RemoveAll(ListRemove(files, Head(files_to_remove)),
                   Tail(files_to_remove))

RECURSIVE RelativeTo(_, _)
\* the entries of files whose path is_relative_to(dir), in list order
RelativeTo(files, dir) ==
    IF files = <<>> THEN <<>>
    ELSE IF is_relative_to(Head(files).path, dir)
         THEN <<Head(files)>> \o RelativeTo(Tail(files), dir)
         ELSE RelativeTo(Tail(files), dir)

\* exclude_source_file after _create_source_doc returned doc_to_exclude:
\* the list it leaves
ExcludeFrom(f, files, doc_to_exclude) ==
    LET files_to_remove ==
            IF is_file(f, doc_to_exclude.path) THEN <<Doc(doc_to_exclude)>>
            ELSE IF is_dir(f, doc_to_exclude.path)
                 THEN RelativeTo(files, doc_to_exclude.path)
            ELSE <<>>
    IN  RemoveAll(files, files_to_remove)

\* ---------------------------------------------------------------- inputs
\* the name of a source file in Python dot-notation: its path relative to
\* the source directory, the suffix dropped, the separators made dots
RECURSIVE JoinDots(_)
JoinDots(parts) ==
    IF Len(parts) = 1 THEN Head(parts)
    ELSE Head(parts) \o <<Dot>> \o JoinDots(Tail(parts))

DottedNameOf(file) ==
    LET rel == SubSeq(file, Len(Root) + 1, Len(file))
        nm  == Last(rel)
        stem == SubSeq(nm, 1, Len(nm) - Len(suffix(rel)))
    IN  JoinDots(Append(Front(rel), stem))

SourceFilePaths ==
    {u \in Universe : is_relative_to(u, Root)
                      /\ suffix(u) \in DOMAIN SOURCE_LANGUAGES}

DottedNames == {Str(DottedNameOf(u)) : u \in SourceFilePaths}

ExplicitNames ==
    { Str(<<"a", Dot, "py">>),                      \* a.py
      Str(<<"p">>),                                 \* p
      Str(<<"p", Sep, "q">>),                       \* p/q
      Str(<<"p", Dot, "q">>),                       \* p.q
      Str(<<"n", Dot, "txt">>),                     \* n.txt
      Str(<<"x", Dot, "py">>),                      \* x.py, never there
      Str(<<Dot, Dot, Sep, "o", Dot, "py">>),       \* ../o.py
      Str(<<Sep, "o", Dot, "py">>) }                \* /o.py

Names == ExplicitNames \cup DottedNames

NoName == Str(<<>>)

DocTypeInputs ==
    { None, <<>>, RFW, <<"P", "y", "t", "h", "o", "n">>,
      <<"h", "t", "m", "l">> }

\* ------------------------------------------------------------------ state
\* fs                  the directory tree the program runs on
\* pc                  "new" before SourceDirectory(...), then "ready", or
\*                     "failed" when the constructor raised
\* documentation_type  self.documentation_type of the SourceDirectory
\* loaded              self._source_files is not None
\* _source_files       self._source_files when it is a list
\* last                the last call: its operation, arguments, the exception
\*                     it raised, the path of the SourceDoc it created and
\*                     whether it scanned the directory
Call(op, name, dt, exc, path, doc_dt, globbed) ==
    [op |-> op, name |-> name, dt |-> dt, exc |-> exc, path |-> path,
     doc_dt |-> doc_dt, globbed |-> globbed]

\* template   the text of the file the Component is built on
\* _content   self._content of the Component, None until the file is read
\* clast      the last call on the Component: its operation, the keyword
\*            arguments, the content it worked on, the exception it raised
\*            and the value it returned
CCall(op, kwargs, before, exc, result) ==
    [op |-> op, kwargs |-> kwargs, before |-> before, exc |-> exc,
     result |-> result]

NoKwargs == [n \in {} |-> <<>>]

\* Component(path) on a file that holds the text t
ComponentNew(t) ==
    /\ template = t
    /\ _content = None
    /\ clast = CCall("none", NoKwargs, None, "", None)

\* SourceDirectory not yet built
DirectoryNew ==
    /\ pc = "new"
    /\ documentation_type = None
    /\ loaded = FALSE
    /\ _source_files = <<>>
    /\ last = Call("none", NoName, None, "", <<>>, None, FALSE)

\* gen        a run of generate_documentation: its position, the include
\*            and exclude lists, the names the running loop still has to
\*            handle and REPO_ROOT
Run(at, include, exclude, todo, repo_root) ==
    [pc |-> at, include |-> include, exclude |-> exclude, todo |-> todo,
     REPO_ROOT |-> repo_root]

\* no run of generate_documentation
NoRun == gen = Run("none", <<>>, <<>>, <<>>, <<>>)

Init ==
    /\ fs \in FileSystems
    /\ DirectoryNew
    /\ ComponentNew(<<>>)
    /\ NoRun

\* SourceDirectory(Root, documentation_type=dt)
SourceDirectoryInit(dt) ==
    /\ pc = "new"
    /\ LET obj == SourceNew(Root, dt)
       IN  /\ pc' = IF obj.exc = "" THEN "ready" ELSE "failed"
           /\ documentation_type' =
                  IF obj.exc = "" THEN obj.documentation_type
                  ELSE documentation_type
           /\ last' = Call("init", NoName, dt, obj.exc, Root, None, FALSE)
    /\ UNCHANGED <<fs, loaded, _source_files>>
    /\ UNCHANGED <<cvars, gen>>

\* a read of the source_files property
AccessSourceFiles ==
    /\ pc = "ready"
    /\ _source_files' =
           source_files(fs, loaded, _source_files, documentation_type)
    /\ loaded' = TRUE
    /\ last' = Call("source_files", NoName, None, "", <<>>, None, ~loaded)
    /\ UNCHANGED <<fs, pc, documentation_type>>
    /\ UNCHANGED <<cvars, gen>>

\* the body of load_source_file(name): what it does to the working list
LoadCall(name) ==
    LET new_sourcedoc == _create_source_doc(fs, name)
    IN  IF new_sourcedoc.exc # ""
        THEN /\ last' = Call("load", name, None, new_sourcedoc.exc,
                             new_sourcedoc.path, None, FALSE)
             /\ UNCHANGED <<loaded, _source_files>>
        ELSE /\ last' = Call("load", name, None, "", new_sourcedoc.path,
                             new_sourcedoc.documentation_type, FALSE)
             /\ IF is_file(fs, new_sourcedoc.path)
                THEN /\ loaded' = TRUE
                     /\ _source_files' =
                            IF ~loaded THEN <<Doc(new_sourcedoc)>>
                            ELSE Append(_source_files, Doc(new_sourcedoc))
                ELSE UNCHANGED <<loaded, _source_files>>

\* the call appends to a list that is there
Appends(name) ==
    LET new_sourcedoc == _create_source_doc(fs, name)
    IN  new_sourcedoc.exc = "" /\ is_file(fs, new_sourcedoc.path) /\ loaded

load_source_file(name) ==
    /\ pc = "ready"
    /\ Appends(name) => Len(_source_files) < MaxFiles
    /\ LoadCall(name)
    /\ UNCHANGED <<fs, pc, documentation_type>>
    /\ UNCHANGED <<cvars, gen>>

\* the body of exclude_source_file(name)
ExcludeCall(name) ==
    LET doc_to_exclude == _create_source_doc(fs, name)
    IN  IF doc_to_exclude.exc # ""
        THEN /\ last' = Call("exclude", name, None, doc_to_exclude.exc,
                             doc_to_exclude.path, None, FALSE)
             /\ UNCHANGED <<loaded, _source_files>>
        ELSE /\ last' = Call("exclude", name, None, "",
                             doc_to_exclude.path,
                             doc_to_exclude.documentation_type, ~loaded)
             /\ loaded' = TRUE
             /\ _source_files' =
                    ExcludeFrom(fs,
                        source_files(fs, loaded, _source_files,
                                     documentation_type),
                        doc_to_exclude)

exclude_source_file(name) ==
    /\ pc = "ready"
    /\ ExcludeCall(name)
    /\ UNCHANGED <<fs, pc, documentation_type>>
    /\ UNCHANGED <<cvars, gen>>

Next ==
    \/ \E dt \in DocTypeInputs : SourceDirectoryInit(dt)
    \/ AccessSourceFiles
    \/ \E name \in Names : load_source_file(name)
    \/ \E name \in Names : exclude_source_file(name)

Spec == Init /\ [][Next]_vars

TypeOK ==
    /\ pc \in {"new", "ready", "failed"}
    /\ loaded \in BOOLEAN
    /\ ~loaded => _source_files = <<>>

\* ------------------------------------------------- vocabulary of claims
\* the place a path leads to: ".." components resolved against the parent
RECURSIVE Normal(_, _)
Normal(p, cur) ==
    IF p = <<>> THEN cur
    ELSE IF Head(p) = DotDot
         THEN Normal(Tail(p), IF cur = <<>> THEN <<>> ELSE Front(cur))
         ELSE Normal(Tail(p), Append(cur, Head(p)))

InsideRoot(p) == is_relative_to(Normal(p, <<>>), Root)

\* the paths of the working set
WorkingPaths == {_source_files[i].path : i \in 1..Len(_source_files)}

\* the files below the source directory with a recognised suffix
RecognisedFiles ==
    {u \in Universe : /\ is_relative_to(u, Root)
                      /\ fs[u] = "file"
                      /\ suffix(u) \in {SuffixPy, SuffixRobot, SuffixResource}}

NameCall == last.op \in {"load", "exclude"}

\* C1: the first access of source_files, with no load_source_file call
\* before it, yields exactly the files below the directory whose suffix is
\* .py, .robot or .resource: all of them, and nothing that is not a file.
C1_FirstAccessListsRecognisedFiles ==
    (last.op = "source_files" /\ last.globbed)
        => WorkingPaths = RecognisedFiles

\* C2: a name given to load_source_file or exclude_source_file that is
\* accepted (no containment error) resolved to a path inside the source
\* directory.
C2_AcceptedNamesResolveInsideRoot ==
    (NameCall /\ last.exc = "") => InsideRoot(last.path)

\* C3: after exclude_source_file(n), where n resolved to an existing file
\* f, the working set has no entry whose path is f.
C3_ExcludedFileIsGone ==
    (last.op = "exclude" /\ last.exc = "" /\ is_file(fs, last.path))
        => last.path \notin WorkingPaths

\* C4: after exclude_source_file(n), where n names an existing directory d
\* inside the source directory (with or without an __init__ file), the
\* working set has no entry whose path is a descendant of d.
C4_ExcludedDirectoryHasNoDescendantLeft ==
    LET d == JoinPath(Root, Path(last.name.s))
    IN  (last.op = "exclude" /\ last.exc = "" /\ InsideRoot(d)
            /\ is_dir(fs, d))
        => \A q \in WorkingPaths : ~is_relative_to(q, Normal(d, <<>>))

\* C5: no two entries of the working set have the same path.
C5_NoTwoEntriesWithTheSamePath ==
    \A i, j \in 1..Len(_source_files) :
        _source_files[i].path = _source_files[j].path => i = j

\* C6: exclusion is idempotent: once exclude_source_file(n) has run,
\* running it again leaves the working set as it is.
C6_ExcludeTwiceIsExcludeOnce ==
    (last.op = "exclude" /\ last.exc = "")
        => ExcludeFrom(fs, _source_files, _create_source_doc(fs, last.name))
               = _source_files

\* the candidate paths of dot-notation for a name, leading dots dropped
RECURSIVE StripDots(_)
StripDots(s) ==
    IF s # <<>> /\ Head(s) = Dot THEN StripDots(Tail(s)) ELSE s

NamesNothing(f, name) ==
    LET asPath   == JoinPath(Root, Path(name.s))
        stripped == StripDots(name.s)
        dotted   == JoinPath(Root, Path(replace(stripped, Dot, Sep)))
    IN  /\ ~exists(f, asPath)
        /\ stripped # <<>>
        /\ \A c \in {dotted, with_suffix(dotted, SuffixPy),
                     with_suffix(dotted, SuffixRobot),
                     with_suffix(dotted, SuffixResource)} : ~exists(f, c)

\* C7: exclude_source_file(n) completes without raising for a name n that
\* stays inside the source directory and for which neither the path nor
\* any candidate of the dot-notation exists.
C7_ExcludeOfUnknownNameDoesNotRaise ==
    (/\ last.op = "exclude"
     /\ InsideRoot(JoinPath(Root, Path(last.name.s)))
     /\ NamesNothing(fs, last.name))
        => last.exc = ""

\* C8: resolving the dot-notation name of an existing source file (its
\* relative path, suffix dropped, separators made dots) returns the path
\* of that file.
C8_DottedNameResolvesToItsFile ==
    NameCall =>
        \A u \in RecognisedFiles :
            last.name = Str(DottedNameOf(u))
                => (last.exc = "" /\ last.path = u)

\* C9: name resolution never returns a directory that holds an __init__.py
\* or an __init__.robot: it returns that file instead.
C9_NoPackageDirectoryIsReturned ==
    (NameCall /\ last.exc = "" /\ is_dir(fs, last.path))
        => _get_init_path_for_dir(fs, last.path) = last.path

AllowList == SeqToSet(VALID_DOC_TYPES)

\* the documentation_type of every Source object the state holds: the
\* SourceDirectory, the entries of the working list and the SourceDoc the
\* last call created
HeldDocTypes ==
    (IF pc = "ready" THEN {documentation_type} ELSE {})
        \cup {_source_files[i].documentation_type :
                 i \in 1..Len(_source_files)}
        \cup (IF last.doc_dt # None THEN {last.doc_dt} ELSE {})

\* C10 as stated: construction fails when the documentation_type given is
\* not a member of the allow-list, and every Source constructed holds a
\* documentation_type that is a member of the allow-list.
C10_DocTypeIsMemberOfAllowList ==
    /\ (last.op = "init" /\ last.dt # None /\ last.dt \notin AllowList)
           => pc = "failed"
    /\ HeldDocTypes \subseteq AllowList

\* C10 as amended: construction fails (ValueError) when the lower-cased
\* documentation_type given is not a member of the allow-list, and every
\* Source constructed holds a documentation_type whose lower-cased form is
\* a member of the allow-list.
C10_DocTypeLowerCasedIsInAllowList ==
    /\ (last.op = "init" /\ last.dt # None /\ lower(last.dt) \notin AllowList)
           => (pc = "failed" /\ last.exc = "ValueError")
    /\ \A t \in HeldDocTypes : lower(t) \in AllowList

\* a SourceDirectory built with "Python" has scanned the directory and
\* holds a SourceDoc with that documentation_type
C10_Witness ==
    /\ pc = "ready"
    /\ documentation_type = <<"P", "y", "t", "h", "o", "n">>
    /\ \E i \in 1..Len(_source_files) :
           _source_files[i].documentation_type = documentation_type

\* SourceDoc.source_language: the language of the suffix, KeyError for a
\* suffix that is no key of SOURCE_LANGUAGES
source_language(doc) ==
    IF suffix(doc.path) \in DOMAIN SOURCE_LANGUAGES
    THEN [exc |-> "", value |-> SOURCE_LANGUAGES[suffix(doc.path)]]
    ELSE [exc |-> "KeyError", value |-> None]

\* C15: every entry of the working set has a suffix that is a key of the
\* suffix-to-language mapping, so source_language fails for no entry.
C15_EveryEntryHasASourceLanguage ==
    \A i \in 1..Len(_source_files) :
        source_language(_source_files[i]).exc = ""

\* PurePath.stem: the final component without its suffix
stem(p) ==
    IF p = <<>> THEN <<>>
    ELSE SubSeq(Last(p), 1, Len(Last(p)) - Len(suffix(p)))

\* SourceDoc.name
name(doc) ==
    IF stem(doc.path) = <<"__init__">> THEN stem(Front(doc.path))
    ELSE stem(doc.path)

\* the directories of the tree that hold an __init__ file with a
\* recognised suffix
PackageDirectories ==
    {Front(u) : u \in {v \in RecognisedFiles : stem(v) = <<"__init__">>}}

\* C11: after the scan of the directory, the names of the entries include
\* the name of every package directory: an entry whose file stem is
\* __init__ is named as its parent directory is, every other entry has its
\* file stem as its name.
C11_InitFilesTakeTheDirectoryName ==
    (last.op = "source_files" /\ last.globbed) =>
        /\ \A d \in PackageDirectories :
               \E i \in 1..Len(_source_files) :
                   name(_source_files[i]) = Last(d)
        /\ \A i \in 1..Len(_source_files) :
               LET path == _source_files[i].path
               IN  name(_source_files[i]) =
                       IF stem(path) = <<"__init__">>
                       THEN Last(Front(path)) ELSE stem(path)

\* -------------------------------------------------------------- Component
\* The text of a template is a sequence of the tokens "{", "}" and atoms
\* (runs of characters without braces).
LBrace == "{"
RBrace == "}"

\* the tokens of a replacement field after its "{": the field name up to
\* the closing "}".  closed is FALSE when the text ends first, nested is
\* TRUE when a "{" stands in the field name.
RECURSIVE ScanField(_, _)
ScanField(s, acc) ==
    IF s = <<>> THEN [closed |-> FALSE, nested |-> FALSE, field |-> acc,
                      rest |-> <<>>]
    ELSE IF Head(s) = LBrace
         THEN [closed |-> FALSE, nested |-> TRUE, field |-> acc,
               rest |-> Tail(s)]
    ELSE IF Head(s) = RBrace
         THEN [closed |-> TRUE, nested |-> FALSE, field |-> acc,
               rest |-> Tail(s)]
    ELSE ScanField(Tail(s), Append(acc, Head(s)))

\* str.format applied to its first field only: the later fields stay
RECURSIVE format_FirstFieldOnly(_, _)
format_FirstFieldOnly(s, kwargs) ==
    IF s = <<>> THEN [exc |-> "", text |-> <<>>]
    ELSE IF Head(s) = LBrace /\ Len(s) > 1 /\ s[2] # LBrace
         THEN LET fld == ScanField(Tail(s), <<>>)
              IN  IF fld.closed /\ fld.field \in DOMAIN kwargs
                  THEN [exc |-> "", text |-> kwargs[fld.field] \o fld.rest]
                  ELSE [exc |-> "ValueError", text |-> <<>>]
    ELSE LET rest == format_FirstFieldOnly(Tail(s), kwargs)
         IN  IF rest.exc # "" THEN rest
             ELSE [exc |-> "", text |-> <<Head(s)>> \o rest.text]

\* str.format(**kwargs): one pass from left to right.  "{{" and "}}" give
\* one brace; "{name}" gives str(kwargs[name]); the first error ends the
\* pass: ValueError for a single brace, a field that is not closed or a
\* "{" in a field name, IndexError for the empty field (no positional
\* arguments are given), KeyError for a name without a value.
RECURSIVE format(_, _)
format(s, kwargs) ==
    IF s = <<>> THEN [exc |-> "", text |-> <<>>]
    ELSE IF Head(s) = RBrace
         THEN IF Len(s) > 1 /\ s[2] = RBrace
              THEN LET rest == format(SubSeq(s, 3, Len(s)), kwargs)
                   IN  IF rest.exc # "" THEN rest
                       ELSE [exc |-> "", text |-> <<RBrace>> \o rest.text]
              ELSE [exc |-> "ValueError", text |-> <<>>]
    ELSE IF Head(s) = LBrace
         THEN IF Len(s) = 1 THEN [exc |-> "ValueError", text |-> <<>>]
              ELSE IF s[2] = LBrace
              THEN LET rest == format(SubSeq(s, 3, Len(s)), kwargs)
                   IN  IF rest.exc # "" THEN rest
                       ELSE [exc |-> "", text |-> <<LBrace>> \o rest.text]
              ELSE LET fld == ScanField(Tail(s), <<>>)
                   IN  IF ~fld.closed
                       THEN [exc |-> "ValueError", text |-> <<>>]
                       ELSE IF fld.field = <<>>
                       THEN [exc |-> "IndexError", text |-> <<>>]
                       ELSE IF fld.field \notin DOMAIN kwargs
                       THEN [exc |-> "KeyError", text |-> <<>>]
                       ELSE LET rest == format(fld.rest, kwargs)
                            IN  IF rest.exc # "" THEN rest
                                ELSE [exc |-> "",
                                      text |-> kwargs[fld.field] \o rest.text]
    ELSE LET rest == format(Tail(s), kwargs)
         IN  IF rest.exc # "" THEN rest
             ELSE [exc |-> "", text |-> <<Head(s)>> \o rest.text]

\* SourceFile.content: the text read on the first access, then the cache
content(t, c) == IF c = None THEN t ELSE c

\* Formatter.parse(self._content): the method is called on the class with
\* one argument, which Python binds to self; format_string is missing and
\* the call raises TypeError whatever _content is.
FormatterParseUnbound(c) == [exc |-> "TypeError", result |-> None]

\* ------------------------------------------------------ Component inputs
\* most pieces a template of the model is put together from
MaxParts == 3

FieldA == <<"a">>
FieldB == <<"b">>

\* the pieces of a template: the fields {a} and {b}, the escapes {{ and }},
\* plain text and single braces
Pieces ==
    { <<LBrace>> \o FieldA \o <<RBrace>>, <<LBrace>> \o FieldB \o <<RBrace>>,
      <<LBrace, LBrace>>, <<RBrace, RBrace>>, <<"x">>, <<LBrace>>,
      <<RBrace>> }

RECURSIVE Concat(_)
Concat(parts) ==
    IF parts = <<>> THEN <<>> ELSE Head(parts) \o Concat(Tail(parts))

Templates ==
    {Concat(parts) : parts \in UNION {[1..n -> Pieces] : n \in 0..MaxParts}}

\* the values of the keyword arguments, as str() gives them: 1, and a text
\* that reads as a field
Values == { <<"1">>, <<LBrace>> \o FieldA \o <<RBrace>> }

KwargsInputs == UNION {[S -> Values] : S \in SUBSET {FieldA, FieldB}}

\* a tree for the runs that use no SourceDirectory
SmallestTree ==
    [u \in Universe |-> IF "none" \in AllowedKinds(u) THEN "none" ELSE "file"]

\* ----------------------------------------------------- Component actions
InitComponent ==
    /\ fs = SmallestTree
    /\ DirectoryNew
    /\ \E t \in Templates : ComponentNew(t)
    /\ NoRun

\* a read of the content property
ReadContent ==
    /\ _content' = content(template, _content)
    /\ clast' = CCall("content", NoKwargs, _content, "", _content')
    /\ UNCHANGED <<template, dvars, gen>>

\* customize_contents(**kwargs): the content is read, formatted and, when
\* format returns, stored
customize_contents(kwargs) ==
    /\ LET text == content(template, _content)
           new  == format(text, kwargs)
       IN  /\ _content' = IF new.exc = "" THEN new.text ELSE text
           /\ clast' = CCall("customize_contents", kwargs, text, new.exc,
                             None)
    /\ UNCHANGED <<template, dvars, gen>>

get_template_fields ==
    /\ LET parsed == FormatterParseUnbound(_content)
       IN  clast' = CCall("get_template_fields", NoKwargs, _content,
                          parsed.exc, parsed.result)
    /\ UNCHANGED <<template, _content, dvars, gen>>

NextComponent ==
    \/ ReadContent
    \/ \E kwargs \in KwargsInputs : customize_contents(kwargs)
    \/ get_template_fields

SpecComponent == InitComponent /\ [][NextComponent]_vars

\* ------------------------------------------------- claims on the Component
\* the field names a text holds, read as str.format reads it
RECURSIVE FieldsOf(_)
FieldsOf(s) ==
    IF s = <<>> THEN {}
    ELSE IF Head(s) = LBrace /\ Len(s) > 1 /\ s[2] = LBrace
         THEN FieldsOf(SubSeq(s, 3, Len(s)))
    ELSE IF Head(s) = LBrace
         THEN LET fld == ScanField(Tail(s), <<>>)
              IN  IF fld.closed
                  THEN (IF fld.field = <<>> THEN {} ELSE {fld.field})
                           \cup FieldsOf(fld.rest)
                  ELSE {}
    ELSE FieldsOf(Tail(s))

\* sub stands in s as a run of tokens
Contains(s, sub) ==
    \E i \in 1..Len(s) :
        i + Len(sub) - 1 <= Len(s) /\ SubSeq(s, i, i + Len(sub) - 1) = sub

Placeholder(n) == <<LBrace>> \o n \o <<RBrace>>

HasBrace(s) == \E i \in 1..Len(s) : s[i] \in {LBrace, RBrace}

HasEscape(s) ==
    Contains(s, <<LBrace, LBrace>>) \/ Contains(s, <<RBrace, RBrace>>)

Customized == clast.op = "customize_contents" /\ clast.exc = ""

\* C12 as stated: after a call of customize_contents that gave a value to
\* every placeholder of the template, the content holds no literal
\* placeholder token of the template.
C12_NoPlaceholderTokenIsLeft ==
    (Customized /\ FieldsOf(clast.before) \subseteq DOMAIN clast.kwargs)
        => \A n \in FieldsOf(clast.before) :
               ~Contains(_content, Placeholder(n))

\* C12 as amended: for a template without the escapes {{ and }} and values
\* whose text holds no brace, after a call of customize_contents that gave
\* a value to every placeholder the content holds no literal placeholder
\* token of the template.
C12_NoPlaceholderTokenIsLeftOfPlainValues ==
    (/\ Customized
     /\ FieldsOf(clast.before) \subseteq DOMAIN clast.kwargs
     /\ ~HasEscape(clast.before)
     /\ \A n \in DOMAIN clast.kwargs : ~HasBrace(clast.kwargs[n]))
        => \A n \in FieldsOf(clast.before) :
               ~Contains(_content, Placeholder(n))

\* customize_contents(a=1, b=1) has run on a template with {a} and {b}
C12_Witness ==
    /\ Customized
    /\ FieldsOf(clast.before) = {FieldA, FieldB}
    /\ ~HasEscape(clast.before)
    /\ \A n \in DOMAIN clast.kwargs : ~HasBrace(clast.kwargs[n])
    /\ _content # clast.before

\* C13: get_template_fields returns the placeholder names of the content,
\* before the content is read, after it is read and after
\* customize_contents.
C13_TemplateFieldsAreReturned ==
    clast.op = "get_template_fields"
        => /\ clast.exc = ""
           /\ SeqToSet(clast.result) = FieldsOf(content(template, _content))

----------------------------------------------------------------------------
\* generate_documentation with in_project set (tasks.py): the directory is
\* constructed, the include names are loaded, the exclude names and the two
\* entries the task adds are excluded, the include names are loaded again
\* and the working list is read.

Comma == ","

\* item.split(",")
RECURSIVE split(_, _)
split(s, cur) ==
    IF s = <<>> THEN <<cur>>
    ELSE IF Head(s) = Comma THEN <<cur>> \o split(Tail(s), <<>>)
         ELSE split(Tail(s), Append(cur, Head(s)))

RECURSIVE _parse_commas(_)
_parse_commas(param) ==
    IF param = <<>> THEN <<>>
    ELSE split(Head(param), <<>>) \o _parse_commas(Tail(param))

\* str(path) of an absolute path
RECURSIVE PathText(_)
PathText(p) ==
    IF p = <<>> THEN <<Sep>>
    ELSE IF Len(p) = 1 THEN <<Sep>> \o Head(p)
         ELSE <<Sep>> \o Head(p) \o PathText(Tail(p))

\* the language parameter keeps its default
language == RFW

\* source_path is the root of the modelled tree
source_path == Root

\* REPO_ROOT, the directory of tasks.py: a directory of the project that is
\* documented (source_path is its parent), or the directory that holds
\* source_path (source_path is REPO_ROOT / "r", as DEFAULT_SOURCE is)
RepoRoots == {D_p, <<>>}

\* the values of --include and --exclude
IncludeInputs ==
    { <<>>,
      << <<"a", Dot, "py">> >>,                           \* a.py
      << <<"p", Sep, "q">> >>,                            \* p/q
      << <<"a", Dot, "py", Comma, "p", Sep, "q">> >>,     \* a.py,p/q
      << <<"p">> >>,                                      \* p
      << <<"x", Dot, "py">> >> }                          \* x.py

ExcludeInputs ==
    { <<>>,
      << <<"a", Dot, "py">> >>,                           \* a.py
      << <<"p", Sep, "q">> >>,                            \* p/q
      << <<"a", Dot, "py", Comma, "p">> >> }              \* a.py,p

\* the names the include loops go through
IncludeNames(g) ==
    LET parsed == _parse_commas(g.include)
    IN  [i \in 1..Len(parsed) |-> Str(parsed[i])]

\* the names the exclude loop goes through
ExcludeNames(g) ==
    LET parsed == _parse_commas(g.exclude)
    IN  [i \in 1..Len(parsed) |-> Str(parsed[i])]
        \o <<PathObj(PathText(g.REPO_ROOT)),
             PathObj(PathText(source_path \o <<<<"tasks", Dot, "robot">>>>))>>

InitGenerate ==
    /\ fs \in FileSystems
    /\ DirectoryNew
    /\ ComponentNew(<<>>)
    /\ \E include \in IncludeInputs, exclude \in ExcludeInputs,
          repo_root \in RepoRoots :
          /\ repo_root = <<>> \/ is_dir(fs, repo_root)
          /\ gen = Run("start", include, exclude, <<>>, repo_root)

\* source_dir = SourceDirectory(source_path, documentation_type=language)
GenConstruct ==
    /\ gen.pc = "start"
    /\ pc = "new"
    /\ LET obj == SourceNew(source_path, language)
       IN  /\ pc' = IF obj.exc = "" THEN "ready" ELSE "failed"
           /\ documentation_type' =
                  IF obj.exc = "" THEN obj.documentation_type
                  ELSE documentation_type
           /\ last' = Call("init", NoName, language, obj.exc, source_path,
                           None, FALSE)
           /\ gen' = IF obj.exc # "" THEN [gen EXCEPT !.pc = "crashed"]
                     ELSE IF gen.include # <<>>
                     THEN [gen EXCEPT !.pc = "load",
                                      !.todo = IncludeNames(gen)]
                     ELSE [gen EXCEPT !.pc = "exclude",
                                      !.todo = ExcludeNames(gen)]
    /\ UNCHANGED <<fs, loaded, _source_files, cvars>>

\* one turn of the first loop over include
GenLoad ==
    /\ gen.pc = "load"
    /\ pc = "ready"
    /\ LoadCall(Head(gen.todo))
    /\ gen' = IF _create_source_doc(fs, Head(gen.todo)).exc # ""
              THEN [gen EXCEPT !.pc = "crashed"]
              ELSE IF Tail(gen.todo) # <<>>
              THEN [gen EXCEPT !.todo = Tail(gen.todo)]
              ELSE [gen EXCEPT !.pc = "exclude", !.todo = ExcludeNames(gen)]
    /\ UNCHANGED <<fs, pc, documentation_type, cvars>>

\* one turn of the loop over exclude
GenExclude ==
    /\ gen.pc = "exclude"
    /\ pc = "ready"
    /\ ExcludeCall(Head(gen.todo))
    /\ gen' = IF _create_source_doc(fs, Head(gen.todo)).exc # ""
              THEN [gen EXCEPT !.pc = "crashed"]
              ELSE IF Tail(gen.todo) # <<>>
              THEN [gen EXCEPT !.todo = Tail(gen.todo)]
              ELSE IF gen.include # <<>>
              THEN [gen EXCEPT !.pc = "reload", !.todo = IncludeNames(gen)]
              ELSE [gen EXCEPT !.pc = "write", !.todo = <<>>]
    /\ UNCHANGED <<fs, pc, documentation_type, cvars>>

\* one turn of the second loop over include
GenReload ==
    /\ gen.pc = "reload"
    /\ pc = "ready"
    /\ LoadCall(Head(gen.todo))
    /\ gen' = IF _create_source_doc(fs, Head(gen.todo)).exc # ""
              THEN [gen EXCEPT !.pc = "crashed"]
              ELSE IF Tail(gen.todo) # <<>>
              THEN [gen EXCEPT !.todo = Tail(gen.todo)]
              ELSE [gen EXCEPT !.pc = "write", !.todo = <<>>]
    /\ UNCHANGED <<fs, pc, documentation_type, cvars>>

\* for doc in source_dir.source_files: the list that is documented
GenWrite ==
    /\ gen.pc = "write"
    /\ pc = "ready"
    /\ _source_files' =
           source_files(fs, loaded, _source_files, documentation_type)
    /\ loaded' = TRUE
    /\ last' = Call("source_files", NoName, None, "", <<>>, None, ~loaded)
    /\ gen' = [gen EXCEPT !.pc = "done"]
    /\ UNCHANGED <<fs, pc, documentation_type, cvars>>

NextGenerate ==
    \/ GenConstruct
    \/ GenLoad
    \/ GenExclude
    \/ GenReload
    \/ GenWrite

SpecGenerate == InitGenerate /\ [][NextGenerate]_vars

\* the run is over
Finished == gen.pc \in {"done", "crashed"}

\* the files that are documented: the working list of a run that got to
\* its end, nothing when the run stopped on an exception
Documented == IF gen.pc = "done" THEN WorkingPaths ELSE {}

\* the files the include names resolve to
IncludedFiles ==
    LET names == IncludeNames(gen)
    IN  {_create_source_doc(fs, names[i]).path :
            i \in {j \in 1..Len(names) :
                      /\ _create_source_doc(fs, names[j]).exc = ""
                      /\ is_file(fs, _create_source_doc(fs, names[j]).path)}}

\* an exclude entry names the file or a directory above it
Excluded(file) ==
    LET names == ExcludeNames(gen)
    IN  \E i \in 1..Len(names) :
            \/ is_relative_to(file, JoinPath(source_path, Path(names[i].s)))
            \/ /\ _create_source_doc(fs, names[i]).exc = ""
               /\ _create_source_doc(fs, names[i]).path = file

\* every name given in include and exclude resolves without an exception
GivenNamesResolve ==
    LET given == _parse_commas(gen.include) \o _parse_commas(gen.exclude)
    IN  \A i \in 1..Len(given) :
            _create_source_doc(fs, Str(given[i])).exc = ""

\* C14: when generate_documentation is over and the names given in include
\* and exclude all resolve, a non-empty include leaves exactly the files the
\* include names resolve to as the documented set, whatever exclude holds;
\* with no include, every source file under source_path is documented
\* unless an exclude entry names it.
C14_IncludeWinsOverExclude ==
    (Finished /\ GivenNamesResolve) =>
        IF gen.include # <<>>
        THEN Documented = IncludedFiles
        ELSE \A file \in RecognisedFiles :
                 file \in Documented <=> ~Excluded(file)

====
